---- MODULE Spec2Model ----
(***************************************************************************)
(* Model of the PDF text-extraction paths of recruitee-mcp-server:         *)
(*   - pdf_to_markdown.py: main() and the pdf_to_markdown() orchestration   *)
(*     that tries every backend adapter and picks the best outcome;         *)
(*   - recruitee_mcp/server.py: extract_pdf_text().                         *)
(* Text is a sequence of one-character strings, so that str.strip(),        *)
(* str.split() and len() are computed and not assumed.                      *)
(***************************************************************************)
EXTENDS Integers, Sequences, FiniteSets, TLC

\* ------------------------------------------------------------------ bounds
\* longest full_text a backend adapter reports
MaxTextLen == 1
\* most pages of a downloaded PDF
MaxPages == 2
\* longest text page.extract_text() returns for one page
MaxPageLen == 2
\* number of calls running concurrently on the event loop
NumTasks == 3
\* most candidates the API returns for one request
MaxCands == 3
\* largest offset and largest limit given to search_candidates
MaxOffset == 2
MaxLimit == 2
\* most candidates a pipeline's /candidates response lists
MaxEvalCands == 2
\* most calls of get_client() in one run of the server
MaxClientCalls == 3

\* -------------------------------------------------------------------- text
SP == " "
NL == "\n"

\* the characters str.strip() and str.split() treat as whitespace
IsSpace(c) == c \in {SP, NL}

RECURSIVE LStrip(_)
LStrip(s) ==
  IF s = <<>> THEN s
  ELSE IF IsSpace(Head(s)) THEN LStrip(Tail(s)) ELSE s

RECURSIVE RStrip(_)
RStrip(s) ==
  IF s = <<>> THEN s
  ELSE IF IsSpace(s[Len(s)]) THEN RStrip(SubSeq(s, 1, Len(s) - 1)) ELSE s

\* str.strip()
Strip(s) == RStrip(LStrip(s))

\* len(str.split()): the number of maximal runs of non-whitespace
SplitCount(s) ==
  Cardinality({i \in 1..Len(s) :
                 /\ ~IsSpace(s[i])
                 /\ (i = 1 \/ IsSpace(s[i - 1]))})

\* every text over the alphabet cs of length at most n
TextsUpTo(cs, n) == UNION {[1..k -> cs] : k \in 0..n}

\* ------------------------------------------------------ backend adapters
\* The adapters _extract_with_pdfplumber/_pymupdf/_pypdf2/_ocr are imported
\* from recruitee_mcp.server; each call either raises or returns a dict with
\* "success".  A successful dict carries the text and the counts the backend
\* reports: the count of the trimmed text, or of the raw text (a backend with
\* another counting convention).
AdapterTexts == TextsUpTo({"a", SP}, MaxTextLen)

ReportedCounts(t) == {Len(Strip(t)), Len(t)}

OkOutcomes ==
  UNION {{[success |-> TRUE, full_text |-> t, character_count |-> c,
           word_count |-> SplitCount(t), page_count |-> 1]
            : c \in ReportedCounts(t)} : t \in AdapterTexts}

FailOutcome == [success |-> FALSE, error |-> "extraction failed"]

\* what one adapter call can do: return a dict, or raise
AdapterReturns == {[raised |-> FALSE, value |-> o] : o \in OkOutcomes \cup {FailOutcome}}
AdapterRaises == [raised |-> TRUE]
AdapterCalls == AdapterReturns \cup {AdapterRaises}

\* ----------------------------------------------------------------- state
VARIABLES
  pc,                \* position in main() / pdf_to_markdown()
  argv,              \* sys.argv[1:]
  pdf_exists,        \* os.path.exists(pdf_file)
  use_ocr,           \* parameter use_ocr
  output_file,       \* parameter output_file ("" is None)
  results,           \* local list results
  methods_attempted, \* local list methods_attempted
  result,            \* local result once the best is chosen
  calls,             \* history: every adapter call made, with what it did
  scorer_calls,      \* history: number of _choose_best_extraction calls
  output_written,    \* history: what happened to the output file
  xpc,               \* position in extract_pdf_text()
  http_session,      \* global http_session: "none", "open" or "closed"
  status,            \* response.status of the download (0 before it)
  doc,               \* the pages of the downloaded PDF, as extract_text() reads them
  temp_exists,       \* the temporary file is on disk
  temp_created,      \* history: the temporary file was created
  page_num,          \* loop variable page_num
  pages_text,        \* local list pages_text
  full_text,         \* local string full_text
  pending,           \* what the try block is leaving with, while finally runs
  outcome,           \* the dict extract_pdf_text() returned
  faults,            \* history: the places where something raised
  run,               \* which call of pdf_to_markdown() this is: 1 or 2
  first,             \* history: what the first call of pdf_to_markdown() did
  tpc,               \* per concurrent call: where it is
  tkind,             \* per concurrent call: "get" or "extract_pdf_text"
  tsession,          \* per concurrent call: the session object it issued its request on
  sessions_created,  \* history: number of aiohttp.ClientSession() objects made
  sessions_closed,   \* history: the session objects cleanup() has closed
  on_closed,         \* history: the calls that issued their request on a closed session
  recruitee_client,  \* global recruitee_client: "none" or "set"
  environ,           \* os.environ: the two RECRUITEE_* variables
  s_pc,              \* position in search_candidates()
  s_args,            \* its arguments: the filters, limit and offset
  all_candidates,    \* local all_candidates: the "candidates" of the response
  s_i,               \* number of candidates the filter loop has looked at
  filtered_candidates, \* local list filtered_candidates
  search_result,     \* the dict search_candidates() returned
  p_pc,              \* position in get_candidate_profile()
  candidate_id,      \* its parameter candidate_id
  candidate,         \* its local dict candidate
  p_log,             \* history: the fetches and extractions this call performed
  p_result,          \* what get_candidate_profile() returned or raised
  e_pc,              \* position in get_candidates_from_pipeline_for_evaluation()
  e_args,            \* its arguments job_id, stage_filter, include_full_cv
  e_all_candidates,  \* its local all_candidates
  e_i,               \* number of candidates its loop has dealt with
  evaluation_candidates, \* local list evaluation_candidates
  e_result,          \* the dict it returned
  invoked,           \* history: the functions invoked since the tool was called
  l_pc,              \* position in get_candidates_from_pipeline()
  l_args,            \* its arguments job_id and stage_filter
  l_all_candidates,  \* its local all_candidates
  l_i,               \* number of candidates its loop has dealt with
  pipeline_candidates, \* local list pipeline_candidates
  l_fetches,         \* history: how the profile fetch of each candidate kept went
  l_result,          \* the dict it returned
  g_rets,            \* history: what each direct call of get_client() did
  client_made        \* history: the RecruiteeClient objects constructed, in order

orchVars == <<pc, argv, pdf_exists, use_ocr, output_file, results,
              methods_attempted, result, calls, scorer_calls, output_written>>

pdfVars == <<xpc, http_session, status, doc, temp_exists, temp_created,
             page_num, pages_text, full_text, pending, outcome, faults>>

\* the locals of extract_pdf_text()
pdfLocals == <<xpc, status, doc, temp_exists, temp_created, page_num,
               pages_text, full_text, pending, outcome, faults>>

twiceVars == <<run, first>>

\* the history of cleanup()
lifeVars == <<sessions_closed, on_closed>>

concVars == <<tpc, tkind, tsession, sessions_created, lifeVars>>

clientVars == <<recruitee_client, environ>>

searchVars == <<s_pc, s_args, all_candidates, s_i, filtered_candidates,
                search_result>>

profileVars == <<p_pc, candidate_id, candidate, p_log, p_result>>

evalVars == <<e_pc, e_args, e_all_candidates, e_i, evaluation_candidates,
              e_result>>

pipeVars == <<l_pc, l_args, l_all_candidates, l_i, pipeline_candidates,
              l_fetches, l_result>>

toolVars == <<profileVars, evalVars, pipeVars, invoked>>

\* the history of get_client() called on its own
clientHist == <<g_rets, client_made>>

\* the state of the MCP tools and of get_client()
serverVars == <<clientVars, clientHist, searchVars, toolVars>>

\* the state the MCP tools leave alone: all that is outside them, but for
\* the global http_session, and the history of get_client() called on its own
nonServer == <<orchVars, pdfLocals, twiceVars, concVars, clientHist>>

\* the state of everything but pdf_to_markdown.py and extract_pdf_text()
restVars == <<twiceVars, concVars, serverVars>>

vars == <<orchVars, pdfVars, restVars>>

NoResult == [unset |-> TRUE]

\* extract_pdf_text() is not running
PdfIdle ==
  /\ xpc = "idle"
  /\ http_session = "none"
  /\ status = 0
  /\ doc = <<>>
  /\ temp_exists = FALSE
  /\ temp_created = FALSE
  /\ page_num = 0
  /\ pages_text = <<>>
  /\ full_text = <<>>
  /\ pending = NoResult
  /\ outcome = NoResult
  /\ faults = {}

\* main() / pdf_to_markdown() is not running
OrchIdle ==
  /\ pc = "idle"
  /\ argv = <<>>
  /\ pdf_exists = FALSE
  /\ use_ocr = TRUE
  /\ output_file = ""
  /\ results = <<>>
  /\ methods_attempted = <<>>
  /\ result = NoResult
  /\ calls = <<>>
  /\ scorer_calls = 0
  /\ output_written = "no"

\* pdf_to_markdown() is called once
TwiceIdle ==
  /\ run = 1
  /\ first = NoResult

\* no concurrent calls are being followed
ConcIdle ==
  /\ tpc = <<>>
  /\ tkind = <<>>
  /\ tsession = <<>>
  /\ sessions_created = 0
  /\ sessions_closed = {}
  /\ on_closed = {}

\* get_client() has not been called; the environment is complete
ClientIdle ==
  /\ recruitee_client = "none"
  /\ environ = [RECRUITEE_API_TOKEN |-> "tok", RECRUITEE_COMPANY_ID |-> "co"]

\* search_candidates() is not running
SearchIdle ==
  /\ s_pc = "idle"
  /\ s_args = NoResult
  /\ all_candidates = <<>>
  /\ s_i = 0
  /\ filtered_candidates = <<>>
  /\ search_result = NoResult

\* get_candidate_profile() is not running
ProfileIdle ==
  /\ p_pc = "idle"
  /\ candidate_id = 0
  /\ candidate = NoResult
  /\ p_log = <<>>
  /\ p_result = NoResult

\* get_candidates_from_pipeline_for_evaluation() is not running
EvalIdle ==
  /\ e_pc = "idle"
  /\ e_args = NoResult
  /\ e_all_candidates = <<>>
  /\ e_i = 0
  /\ evaluation_candidates = <<>>
  /\ e_result = NoResult

\* get_candidates_from_pipeline() is not running
PipeIdle ==
  /\ l_pc = "idle"
  /\ l_args = NoResult
  /\ l_all_candidates = <<>>
  /\ l_i = 0
  /\ pipeline_candidates = <<>>
  /\ l_fetches = <<>>
  /\ l_result = NoResult

ToolIdle == ProfileIdle /\ EvalIdle /\ PipeIdle /\ invoked = {}

\* get_client() has not been called on its own
ClientHistIdle == g_rets = <<>> /\ client_made = <<>>

ServerIdle == ClientIdle /\ ClientHistIdle /\ SearchIdle /\ ToolIdle

RestIdle == TwiceIdle /\ ConcIdle /\ ServerIdle

\* the command lines main() is run with (after the script name)
ArgLists ==
  {<<"doc.pdf">>, <<"doc.pdf", "--no-ocr">>,
   <<"doc.pdf", "out.md">>, <<"doc.pdf", "out.md", "--no-ocr">>}

OrchInit ==
  /\ pc = "main"
  /\ argv \in ArgLists
  /\ pdf_exists \in BOOLEAN
  /\ use_ocr = TRUE
  /\ output_file = ""
  /\ results = <<>>
  /\ methods_attempted = <<>>
  /\ result = NoResult
  /\ calls = <<>>
  /\ scorer_calls = 0
  /\ output_written = "no"
  /\ PdfIdle
  /\ RestIdle

\* ------------------------------------------------------------------ main
StartsWithDashes(arg) == arg \in {"--no-ocr"}

\* the first argument after the pdf that does not start with "--", or ""
RECURSIVE FirstPlain(_)
FirstPlain(args) ==
  IF args = <<>> THEN ""
  ELSE IF ~StartsWithDashes(Head(args)) THEN Head(args)
  ELSE FirstPlain(Tail(args))

Main ==
  /\ pc = "main"
  /\ use_ocr' = ~(\E i \in 2..Len(argv) : argv[i] = "--no-ocr")
  /\ output_file' = FirstPlain(Tail(argv))
  /\ pc' = "start"
  /\ UNCHANGED <<pdfVars, restVars>>
  /\ UNCHANGED <<argv, pdf_exists, results, methods_attempted, result, calls,
                 scorer_calls, output_written>>

\* ------------------------------------------------------- pdf_to_markdown
\* Start with the two lists kept from an earlier call (module-level lists)
Start_KeepLists ==
  /\ pc = "start"
  /\ IF ~pdf_exists
       THEN /\ pc' = "done"
            /\ UNCHANGED output_file
       ELSE /\ pc' = "pdfplumber"
            /\ output_file' = IF output_file = "" THEN "doc_extracted.md"
                              ELSE output_file
  /\ UNCHANGED <<pdfVars, restVars>>
  /\ UNCHANGED <<argv, pdf_exists, use_ocr, results, methods_attempted,
                 result, calls, scorer_calls, output_written>>

\* the existence check, the output name, results = [], methods_attempted = []
Start ==
  /\ pc = "start"
  /\ IF ~pdf_exists
       THEN /\ pc' = "done"
            /\ UNCHANGED <<output_file, results, methods_attempted>>
       ELSE /\ pc' = "pdfplumber"
            /\ output_file' = IF output_file = "" THEN "doc_extracted.md"
                              ELSE output_file
            /\ results' = <<>>
            /\ methods_attempted' = <<>>
  /\ UNCHANGED <<pdfVars, restVars>>
  /\ UNCHANGED <<argv, pdf_exists, use_ocr, result, calls, scorer_calls,
                 output_written>>

Failed(name) == name \o " (failed)"

\* Attempt with the orchestration given up at the first exception
Attempt_AbortOnRaise(name, next) ==
  \E c \in AdapterCalls :
    /\ calls' = Append(calls, [name |-> name, call |-> c])
    /\ IF c.raised
         THEN /\ methods_attempted' = Append(methods_attempted, Failed(name))
              /\ pc' = "choose"
              /\ UNCHANGED results
         ELSE /\ pc' = next
              /\ IF c.value.success
                   THEN /\ results' = Append(results, <<name, c.value>>)
                        /\ methods_attempted' = Append(methods_attempted, name)
                   ELSE UNCHANGED <<results, methods_attempted>>
    /\ UNCHANGED <<pdfVars, restVars>>
    /\ UNCHANGED <<argv, pdf_exists, use_ocr, output_file, result,
                   scorer_calls, output_written>>

\* Attempt with every kept dict labelled "pdfplumber" (the label of the
\* first try block left in a copied one)
Attempt_StaleLabel(name, next) ==
  \E c \in AdapterCalls :
    /\ calls' = Append(calls, [name |-> name, call |-> c])
    /\ IF c.raised
         THEN /\ methods_attempted' = Append(methods_attempted, Failed(name))
              /\ UNCHANGED results
         ELSE IF c.value.success
           THEN /\ results' = Append(results, <<"pdfplumber", c.value>>)
                /\ methods_attempted' = Append(methods_attempted, name)
           ELSE UNCHANGED <<results, methods_attempted>>
    /\ pc' = next
    /\ UNCHANGED <<pdfVars, restVars>>
    /\ UNCHANGED <<argv, pdf_exists, use_ocr, output_file, result,
                   scorer_calls, output_written>>

\* Attempt with results.insert(0, ...) for results.append(...)
Attempt_Prepend(name, next) ==
  \E c \in AdapterCalls :
    /\ calls' = Append(calls, [name |-> name, call |-> c])
    /\ IF c.raised
         THEN /\ methods_attempted' = Append(methods_attempted, Failed(name))
              /\ UNCHANGED results
         ELSE IF c.value.success
           THEN /\ results' = <<<<name, c.value>>>> \o results
                /\ methods_attempted' = Append(methods_attempted, name)
           ELSE UNCHANGED <<results, methods_attempted>>
    /\ pc' = next
    /\ UNCHANGED <<pdfVars, restVars>>
    /\ UNCHANGED <<argv, pdf_exists, use_ocr, output_file, result,
                   scorer_calls, output_written>>

\* one try block: await the adapter, keep a successful dict, tag an exception
Attempt(name, next) ==
  \E c \in AdapterCalls :
    /\ calls' = Append(calls, [name |-> name, call |-> c])
    /\ IF c.raised
         THEN /\ methods_attempted' = Append(methods_attempted, Failed(name))
              /\ UNCHANGED results
         ELSE IF c.value.success
           THEN /\ results' = Append(results, <<name, c.value>>)
                /\ methods_attempted' = Append(methods_attempted, name)
           ELSE UNCHANGED <<results, methods_attempted>>
    /\ pc' = next
    /\ UNCHANGED <<pdfVars, restVars>>
    /\ UNCHANGED <<argv, pdf_exists, use_ocr, output_file, result,
                   scorer_calls, output_written>>

TryPdfplumber == pc = "pdfplumber" /\ Attempt("pdfplumber", "pymupdf")

TryPymupdf == pc = "pymupdf" /\ Attempt("pymupdf", "pypdf2")

TryPypdf2 == pc = "pypdf2" /\ Attempt("pypdf2", "ocr")

\* TryOcr with OCR also run as a last resort when nothing else succeeded
TryOcr_LastResort ==
  pc = "ocr" /\ (use_ocr \/ results = <<>>) /\ Attempt("ocr", "choose")

TryOcr == pc = "ocr" /\ use_ocr /\ Attempt("ocr", "choose")

SkipOcr ==
  /\ pc = "ocr"
  /\ ~use_ocr
  /\ pc' = "choose"
  /\ UNCHANGED <<pdfVars, restVars>>
  /\ UNCHANGED <<argv, pdf_exists, use_ocr, output_file, results,
                 methods_attempted, result, calls, scorer_calls, output_written>>

\* _choose_best_extraction: largest character_count, the first attempted
\* among equals; the position of the winner in the candidate list
BestIndex(cands) ==
  CHOOSE i \in 1..Len(cands) :
    /\ \A j \in 1..Len(cands) :
         cands[j][2].character_count <= cands[i][2].character_count
    /\ \A j \in 1..(i - 1) :
         cands[j][2].character_count < cands[i][2].character_count

\* the winning dict with method_used and methods_attempted stored in it
Merged(name, o, attempted) ==
  [success |-> o.success, full_text |-> o.full_text,
   character_count |-> o.character_count, word_count |-> o.word_count,
   page_count |-> o.page_count,
   method_used |-> name, methods_attempted |-> attempted]

AllFailed(attempted) ==
  [success |-> FALSE, error |-> "All extraction methods failed",
   methods_attempted |-> attempted]

\* Choose with "if len(results) > 1" for "if results"
Choose_NeedsTwo ==
  /\ pc = "choose"
  /\ IF Len(results) > 1
       THEN LET i == BestIndex(results)
                m == Merged(results[i][1], results[i][2], methods_attempted)
            IN /\ result' = m
               /\ results' = [results EXCEPT ![i] = <<results[i][1], m>>]
               /\ scorer_calls' = scorer_calls + 1
       ELSE /\ result' = AllFailed(methods_attempted)
            /\ UNCHANGED <<results, scorer_calls>>
  /\ pc' = "report"
  /\ UNCHANGED <<pdfVars, restVars>>
  /\ UNCHANGED <<argv, pdf_exists, use_ocr, output_file, methods_attempted,
                 calls, output_written>>

Choose ==
  /\ pc = "choose"
  /\ IF results # <<>>
       THEN LET i == BestIndex(results)
                m == Merged(results[i][1], results[i][2], methods_attempted)
            IN /\ result' = m
               \* the winner is the same dict object as the list entry
               /\ results' = [results EXCEPT ![i] = <<results[i][1], m>>]
               /\ scorer_calls' = scorer_calls + 1
       ELSE /\ result' = AllFailed(methods_attempted)
            /\ UNCHANGED <<results, scorer_calls>>
  /\ pc' = "report"
  /\ UNCHANGED <<pdfVars, restVars>>
  /\ UNCHANGED <<argv, pdf_exists, use_ocr, output_file, methods_attempted,
                 calls, output_written>>

\* Report going on to the output file whatever result["success"] is
Report_WriteAlways ==
  /\ pc = "report"
  /\ pc' = "write"
  /\ UNCHANGED <<pdfVars, restVars>>
  /\ UNCHANGED <<argv, pdf_exists, use_ocr, output_file, results,
                 methods_attempted, result, calls, scorer_calls, output_written>>

\* if not result.get("success"): return
Report ==
  /\ pc = "report"
  /\ pc' = IF ~result.success THEN "done" ELSE "write"
  /\ UNCHANGED <<pdfVars, restVars>>
  /\ UNCHANGED <<argv, pdf_exists, use_ocr, output_file, results,
                 methods_attempted, result, calls, scorer_calls, output_written>>

WriteOutput ==
  /\ pc = "write"
  /\ output_written' \in {"written", "error"}
  /\ pc' = "done"
  /\ UNCHANGED <<pdfVars, restVars>>
  /\ UNCHANGED <<argv, pdf_exists, use_ocr, output_file, results,
                 methods_attempted, result, calls, scorer_calls>>

OrchNext ==
  \/ Main
  \/ Start
  \/ TryPdfplumber
  \/ TryPymupdf
  \/ TryPypdf2
  \/ TryOcr
  \/ SkipOcr
  \/ Choose
  \/ Report
  \/ WriteOutput

SpecOrch == OrchInit /\ [][OrchNext]_vars

\* ------------------------------------------------- orchestration: claims
\* Choose has run: the orchestration has produced its result
Finished == result # NoResult

Succeeded(c) == IF c.call.raised THEN FALSE ELSE c.call.value.success

CallNames == [i \in 1..Len(calls) |-> calls[i].name]

SucceededIdx == {i \in 1..Len(calls) : Succeeded(calls[i])}

ReportedCount(i) == calls[i].call.value.character_count

MaxIdx == {i \in SucceededIdx :
             \A j \in SucceededIdx : ReportedCount(j) <= ReportedCount(i)}

FixedOrder ==
  <<"pdfplumber", "pymupdf", "pypdf2">> \o (IF use_ocr THEN <<"ocr">> ELSE <<>>)

IsPrefix(s, t) == Len(s) <= Len(t) /\ s = SubSeq(t, 1, Len(s))

\* C1: when the orchestration finishes, methods_attempted has one entry per
\* backend invoked, in invocation order: the name if the backend's outcome had
\* success=true, the name followed by " (failed)" if it returned success=false
\* or raised.
C1_EveryAttemptRecorded ==
  Finished =>
    /\ methods_attempted =
         [i \in 1..Len(calls) |->
            IF Succeeded(calls[i]) THEN calls[i].name ELSE Failed(calls[i].name)]
    /\ result.methods_attempted = methods_attempted

\* C2: on an existing file the adapters are invoked in the order pdfplumber,
\* pymupdf, pypdf2, then ocr iff use_ocr, each exactly once, whatever the
\* earlier ones did: the calls made so far are always a prefix of that order
\* and are all of it once the orchestration has finished.
C2_FixedInvocationOrder ==
  /\ IsPrefix(CallNames, FixedOrder)
  /\ (pc \in {"choose", "report", "write"} \/ Finished) => CallNames = FixedOrder

C2_Witness ==
  /\ Finished
  /\ Len(calls) = 4
  /\ calls[1].call.raised
  /\ ~calls[2].call.raised /\ ~calls[2].call.value.success
  /\ Succeeded(calls[3])
  /\ calls[4].name = "ocr"

\* C3: if every enabled backend fails, the result has success=false, error
\* "All extraction methods failed", full_text "" and page_count 0, and the
\* scorer is not invoked.
C3_AllFailedResult ==
  (Finished /\ SucceededIdx = {}) =>
    /\ result.success = FALSE
    /\ result.error = "All extraction methods failed"
    /\ "full_text" \in DOMAIN result
    /\ result.full_text = <<>>
    /\ "page_count" \in DOMAIN result
    /\ result.page_count = 0
    /\ scorer_calls = 0

\* C4: when two or more backends succeed and their character_count values
\* are not all the same, method_used names a backend with the largest
\* character_count and the result's character_count is that largest value.
C4_LargestCountWins ==
  (/\ Finished
   /\ Cardinality(SucceededIdx) >= 2
   /\ \E i, j \in SucceededIdx : ReportedCount(i) # ReportedCount(j)) =>
    /\ \E i \in MaxIdx :
         /\ result.method_used = calls[i].name
         /\ result.character_count = ReportedCount(i)

C4_Witness ==
  /\ Finished
  /\ Cardinality(SucceededIdx) >= 3
  /\ \E i, j \in SucceededIdx :
       /\ i < j
       /\ ReportedCount(i) < ReportedCount(j)
       /\ j \in MaxIdx
       /\ result.method_used = calls[j].name
       /\ result.method_used # "pdfplumber"

\* C5: when several succeeding backends tie on the largest character_count,
\* method_used is the one attempted earliest in the fixed order.
C5_EarliestWinsTie ==
  (Finished /\ Cardinality(MaxIdx) >= 2) =>
    \E i \in MaxIdx :
      /\ \A j \in MaxIdx : i <= j
      /\ result.method_used = calls[i].name

C5_Witness ==
  /\ Finished
  /\ Cardinality(MaxIdx) >= 2
  /\ 1 \notin MaxIdx
  /\ \E i \in MaxIdx : ReportedCount(i) > 0

\* C6: if pdfplumber, pymupdf and pypdf2 all fail, use_ocr is true and the OCR
\* backend succeeds, the result has success=true and method_used "ocr".
C6_OcrFallback ==
  (/\ Finished
   /\ use_ocr
   /\ SucceededIdx = {4}) =>
    /\ result.success = TRUE
    /\ result.method_used = "ocr"

C6_Witness ==
  /\ Finished
  /\ use_ocr
  /\ SucceededIdx = {4}
  /\ calls[1].call.raised
  /\ ~calls[2].call.raised
  /\ calls[4].name = "ocr"

\* C7: if use_ocr is false (as after --no-ocr on the command line), the OCR
\* adapter is never invoked, neither "ocr" nor "ocr (failed)" is in
\* methods_attempted, and method_used is never "ocr".
C7_NoOcrUnlessEnabled ==
  ((pc # "main" /\ \E k \in 1..Len(argv) : argv[k] = "--no-ocr") => ~use_ocr)
  /\ (~use_ocr =>
        /\ \A i \in 1..Len(calls) : calls[i].name # "ocr"
        /\ \A i \in 1..Len(methods_attempted) :
             methods_attempted[i] \notin {"ocr", Failed("ocr")}
        /\ (Finished /\ result.success) => result.method_used # "ocr")

C7_Witness ==
  /\ Finished
  /\ ~use_ocr
  /\ Len(calls) = 3
  /\ SucceededIdx = {}

\* C8: whenever at least one backend succeeds, the result's character_count
\* is the length of its trimmed full_text and its word_count the number of
\* whitespace-delimited tokens of full_text, whatever the winner reported.
C8_CountsRecomputed ==
  (Finished /\ SucceededIdx # {}) =>
    /\ result.character_count = Len(Strip(result.full_text))
    /\ result.word_count = SplitCount(result.full_text)


\* C21: a backend adapter is invoked only if the input file exists, and the
\* output file is opened for writing only if the aggregated result has
\* success=true: for a missing input file or when every backend fails,
\* nothing is rendered and no output file is created or overwritten.
C21_NoOutputWithoutSuccess ==
  /\ calls # <<>> => pdf_exists
  /\ output_written # "no" => pdf_exists /\ Finished /\ result.success
  /\ pc = "write" => Finished /\ result.success
  /\ (pc = "done" /\ ~pdf_exists) =>
       calls = <<>> /\ ~Finished /\ output_written = "no"
  /\ (pc = "done" /\ Finished /\ ~result.success) => output_written = "no"

C21_Witness ==
  /\ pc = "done"
  /\ pdf_exists
  /\ Len(calls) = 4
  /\ Finished
  /\ ~result.success
  /\ output_written = "no"

\* ------------------------------------------- pdf_to_markdown, called twice
\* pdf_to_markdown() is called on a document that exists
TwiceInit ==
  /\ pc = "start"
  /\ argv = <<>>
  /\ pdf_exists = TRUE
  /\ use_ocr \in BOOLEAN
  /\ output_file = "out.md"
  /\ results = <<>>
  /\ methods_attempted = <<>>
  /\ result = NoResult
  /\ calls = <<>>
  /\ scorer_calls = 0
  /\ output_written = "no"
  /\ PdfIdle
  /\ RestIdle

\* the document is unchanged and the adapters are functions of it: in the
\* second call each adapter does what it did in the first
SameDocument ==
  run = 2 => calls'[Len(calls')] = first.calls[Len(calls')]

TwiceStart == Start

TwicePdfplumber == TryPdfplumber /\ SameDocument

TwicePymupdf == TryPymupdf /\ SameDocument

TwicePypdf2 == TryPypdf2 /\ SameDocument

TwiceOcr == TryOcr /\ SameDocument

\* the first call has returned; pdf_to_markdown() is called again with the
\* same arguments.  The frame of the first call is gone: its locals are left
\* as they were until the new call binds them.
CallAgain ==
  /\ pc = "done"
  /\ run = 1
  /\ first' = [result |-> result, methods_attempted |-> methods_attempted,
               calls |-> calls]
  /\ run' = 2
  /\ pc' = "start"
  /\ result' = NoResult
  /\ calls' = <<>>
  /\ scorer_calls' = 0
  /\ output_written' = "no"
  /\ UNCHANGED <<argv, pdf_exists, use_ocr, output_file, results,
                 methods_attempted>>
  /\ UNCHANGED <<pdfVars, concVars, serverVars>>

TwiceNext ==
  \/ TwiceStart
  \/ TwicePdfplumber
  \/ TwicePymupdf
  \/ TwicePypdf2
  \/ TwiceOcr
  \/ SkipOcr
  \/ Choose
  \/ Report
  \/ WriteOutput
  \/ CallAgain

SpecTwice == TwiceInit /\ [][TwiceNext]_vars

\* C11: a second run of the orchestration on the same unchanged document with
\* the same use_ocr gives the same method_used, full_text and
\* methods_attempted as the first, and starts from empty lists: nothing the
\* first run wrote is visible to it.
C11_SecondRunIdentical ==
  /\ (run = 2 /\ pc = "pdfplumber") => (results = <<>> /\ methods_attempted = <<>>)
  /\ (run = 2 /\ Finished) =>
       /\ result.methods_attempted = first.result.methods_attempted
       /\ result.success = first.result.success
       /\ result.success =>
            /\ result.method_used = first.result.method_used
            /\ result.full_text = first.result.full_text
       /\ result = first.result

C11_Witness ==
  /\ run = 2
  /\ pc = "done"
  /\ result.success
  /\ Len(first.methods_attempted) >= 3
  /\ result.method_used # "pdfplumber"
  /\ \E i \in 1..Len(calls) : calls[i].call.raised


\* ------------------------------------------------------- extract_pdf_text
\* what page.extract_text() gives for a page without text
NoneText == <<"None">>

\* what page.extract_text() can return for one page
PageResults == {NoneText} \cup TextsUpTo({"a", SP}, MaxPageLen)

\* the PDFs the download can deliver, as the sequence of their pages
Docs == UNION {[1..n -> PageResults] : n \in 0..MaxPages}

\* the statuses the download answers with
Statuses == {200, 404}

\* Python truth value of a page's text: None and "" are false
Truthy(t) == t # NoneText /\ t # <<>>

\* Failure with only success and error in the dict
Failure_Bare(err) == [success |-> FALSE, error |-> err]

Failure(err) ==
  [success |-> FALSE, error |-> err, full_text |-> <<>>, pages |-> <<>>,
   page_count |-> 0]

\* Success with character_count taken from the untrimmed text
Success_RawCount(text, pages, npages) ==
  [success |-> TRUE,
   full_text |-> Strip(text),
   pages |-> pages,
   page_count |-> npages,
   metadata |-> [page_count |-> npages],
   character_count |-> Len(text),
   word_count |-> IF text # <<>> THEN SplitCount(text) ELSE 0]

Success(text, pages, npages) ==
  [success |-> TRUE,
   full_text |-> Strip(text),
   pages |-> pages,
   page_count |-> npages,
   metadata |-> [page_count |-> npages],
   character_count |-> Len(Strip(text)),
   word_count |-> IF text # <<>> THEN SplitCount(text) ELSE 0]

Raising(err) == [exc |-> TRUE, error |-> err]
Returning(d) == [exc |-> FALSE, value |-> d]

PdfInit ==
  /\ OrchIdle
  /\ RestIdle
  /\ xpc = "session"
  /\ http_session \in {"none", "open"}
  /\ status = 0
  /\ doc = <<>>
  /\ temp_exists = FALSE
  /\ temp_created = FALSE
  /\ page_num = 0
  /\ pages_text = <<>>
  /\ full_text = <<>>
  /\ pending = NoResult
  /\ outcome = NoResult
  /\ faults = {}

\* the except clause of the outer try: log, return the failure dict
Caught(where) ==
  /\ faults' = faults \cup {where}
  /\ outcome' = Failure(where)
  /\ xpc' = "returned"

\* if not http_session: http_session = aiohttp.ClientSession()
EnsureSession ==
  /\ xpc = "session"
  /\ IF http_session = "none"
       THEN \E ok \in BOOLEAN :
              IF ok
                THEN /\ http_session' = "open"
                     /\ xpc' = "download"
                     /\ UNCHANGED faults
                ELSE /\ faults' = faults \cup {"session"}
                     /\ xpc' = "raised"
                     /\ UNCHANGED http_session
       ELSE /\ xpc' = "download"
            /\ UNCHANGED <<http_session, faults>>
  /\ UNCHANGED <<status, doc, temp_exists, temp_created, page_num, pages_text,
                 full_text, pending, outcome>>
  /\ UNCHANGED <<orchVars, restVars>>

\* async with http_session.get(pdf_url) as response: the status check
Get ==
  /\ xpc = "download"
  /\ \/ /\ Caught("get")
        /\ UNCHANGED status
     \/ \E st \in Statuses :
          /\ status' = st
          /\ IF st # 200
               THEN /\ outcome' = Failure("HTTP " \o ToString(st))
                    /\ xpc' = "returned"
               ELSE /\ xpc' = "read"
                    /\ UNCHANGED outcome
          /\ UNCHANGED faults
  /\ UNCHANGED <<http_session, doc, temp_exists, temp_created, page_num,
                 pages_text, full_text, pending>>
  /\ UNCHANGED <<orchVars, restVars>>

\* pdf_content = await response.read()
Read ==
  /\ xpc = "read"
  /\ \/ /\ Caught("read")
        /\ UNCHANGED doc
     \/ /\ doc' \in Docs
        /\ xpc' = "tempfile"
        /\ UNCHANGED <<outcome, faults>>
  /\ UNCHANGED <<http_session, status, temp_exists, temp_created, page_num,
                 pages_text, full_text, pending>>
  /\ UNCHANGED <<orchVars, restVars>>

\* tempfile.NamedTemporaryFile(suffix='.pdf', delete=False)
CreateTemp ==
  /\ xpc = "tempfile"
  /\ \/ /\ Caught("tempfile")
        /\ UNCHANGED <<temp_exists, temp_created>>
     \/ /\ temp_exists' = TRUE
        /\ temp_created' = TRUE
        /\ xpc' = "write"
        /\ UNCHANGED <<outcome, faults>>
  /\ UNCHANGED <<http_session, status, doc, page_num, pages_text, full_text,
                 pending>>
  /\ UNCHANGED <<orchVars, restVars>>

\* temp_file.write(pdf_content); temp_path = temp_file.name
WriteTemp ==
  /\ xpc = "write"
  /\ \/ Caught("write")
     \/ /\ xpc' = "open"
        /\ UNCHANGED <<outcome, faults>>
  /\ UNCHANGED <<http_session, status, doc, temp_exists, temp_created,
                 page_num, pages_text, full_text, pending>>
  /\ UNCHANGED <<orchVars, restVars>>

\* an exception inside the inner try: finally runs before the except clause
Thrown(where) ==
  /\ faults' = faults \cup {where}
  /\ pending' = Raising(where)
  /\ xpc' = "cleanup"

\* with pdfplumber.open(temp_path) as pdf: pages_text = []; full_text = ""
OpenPdf ==
  /\ xpc = "open"
  /\ \/ /\ Thrown("open")
        /\ UNCHANGED <<page_num, pages_text, full_text>>
     \/ /\ pages_text' = <<>>
        /\ full_text' = <<>>
        /\ page_num' = 0
        /\ xpc' = "page"
        /\ UNCHANGED <<pending, faults>>
  /\ UNCHANGED <<http_session, status, doc, temp_exists, temp_created, outcome>>
  /\ UNCHANGED <<orchVars, restVars>>

\* ExtractPage with page_number the 0-based index of enumerate
ExtractPage_ZeroBased ==
  /\ xpc = "page"
  /\ page_num < Len(doc)
  /\ \/ /\ Thrown("extract_text")
        /\ UNCHANGED <<page_num, pages_text, full_text>>
     \/ LET page_text == doc[page_num + 1]
        IN /\ IF Truthy(page_text)
                THEN /\ pages_text' =
                          Append(pages_text, [page_number |-> page_num,
                                              text |-> Strip(page_text)])
                     /\ full_text' = full_text \o page_text \o <<NL, NL>>
                ELSE UNCHANGED <<pages_text, full_text>>
           /\ page_num' = page_num + 1
           /\ UNCHANGED <<xpc, pending, faults>>
  /\ UNCHANGED <<http_session, status, doc, temp_exists, temp_created, outcome>>
  /\ UNCHANGED <<orchVars, restVars>>

\* one round of: for page_num, page in enumerate(pdf.pages)
ExtractPage ==
  /\ xpc = "page"
  /\ page_num < Len(doc)
  /\ \/ /\ Thrown("extract_text")
        /\ UNCHANGED <<page_num, pages_text, full_text>>
     \/ LET page_text == doc[page_num + 1]
        IN /\ IF Truthy(page_text)
                THEN /\ pages_text' =
                          Append(pages_text, [page_number |-> page_num + 1,
                                              text |-> Strip(page_text)])
                     /\ full_text' = full_text \o page_text \o <<NL, NL>>
                ELSE UNCHANGED <<pages_text, full_text>>
           /\ page_num' = page_num + 1
           /\ UNCHANGED <<xpc, pending, faults>>
  /\ UNCHANGED <<http_session, status, doc, temp_exists, temp_created, outcome>>
  /\ UNCHANGED <<orchVars, restVars>>

\* after the loop: the metadata and the dict to return
BuildResult ==
  /\ xpc = "page"
  /\ page_num = Len(doc)
  /\ \/ Thrown("metadata")
     \/ /\ pending' = Returning(Success(full_text, pages_text, Len(doc)))
        /\ xpc' = "cleanup"
        /\ UNCHANGED faults
  /\ UNCHANGED <<http_session, status, doc, temp_exists, temp_created,
                 page_num, pages_text, full_text, outcome>>
  /\ UNCHANGED <<orchVars, restVars>>

\* finally: os.unlink(temp_path), an OSError ignored; then the return, or
\* the outer except clause for what the try block raised
Cleanup ==
  /\ xpc = "cleanup"
  /\ \E removed \in BOOLEAN :
       /\ temp_exists' = IF removed THEN FALSE ELSE temp_exists
       /\ faults' = IF removed THEN faults ELSE faults \cup {"unlink"}
  /\ outcome' = IF pending.exc THEN Failure(pending.error) ELSE pending.value
  /\ xpc' = "returned"
  /\ UNCHANGED <<http_session, status, doc, temp_created, page_num,
                 pages_text, full_text, pending>>
  /\ UNCHANGED <<orchVars, restVars>>

PdfNext ==
  \/ EnsureSession
  \/ Get
  \/ Read
  \/ CreateTemp
  \/ WriteTemp
  \/ OpenPdf
  \/ ExtractPage
  \/ BuildResult
  \/ Cleanup

SpecPdf == PdfInit /\ [][PdfNext]_vars

\* ----------------------------------------------- extract_pdf_text: claims
Returned == xpc = "returned"

\* C9: extract_pdf_text never raises to its caller: whatever the status and
\* wherever a fault occurs (session creation, download, temp-file writing,
\* extraction, cleanup) it returns a dict, with success=false and error set
\* when something raised before the cleanup.
C9_NeverRaises ==
  /\ xpc # "raised"
  /\ (Returned /\ faults \ {"unlink"} # {}) =>
       /\ outcome.success = FALSE
       /\ "error" \in DOMAIN outcome

\* C10: whenever extract_pdf_text has returned, the temporary file it created
\* no longer exists.
C10_TempFileDeleted ==
  (xpc \in {"returned", "raised"} /\ temp_created) => ~temp_exists

\* C12: in every successful outcome with non-empty pages, page_number is
\* 1-based, strictly increasing with the index in pages, and at most
\* page_count.
C12_PageNumbersIncrease ==
  (Returned /\ outcome.success) =>
    \A i \in 1..Len(outcome.pages) :
      /\ outcome.pages[i].page_number >= 1
      /\ outcome.pages[i].page_number <= outcome.page_count
      /\ \A j \in 1..Len(outcome.pages) :
           i < j => outcome.pages[i].page_number < outcome.pages[j].page_number

C12_Witness ==
  /\ Returned
  /\ outcome.success
  /\ Len(outcome.pages) = 1
  /\ outcome.page_count = 2
  /\ outcome.pages[1].page_number = 2

\* C13: in every successful outcome every entry of pages has non-empty
\* trimmed text (a page without text after trimming is skipped), page_count
\* is the number of pages of the document, and len(pages) <= page_count.
C13_NoEmptyPageEntries ==
  (Returned /\ outcome.success) =>
    /\ \A i \in 1..Len(outcome.pages) : outcome.pages[i].text # <<>>
    /\ outcome.page_count = Len(doc)
    /\ Len(outcome.pages) <= outcome.page_count

\* C14: in every successful outcome full_text is trimmed, character_count is
\* its length and word_count the number of its whitespace-delimited tokens
\* (0 when it is empty).
C14_CountsMatchText ==
  (Returned /\ outcome.success) =>
    /\ outcome.full_text = Strip(outcome.full_text)
    /\ outcome.character_count = Len(outcome.full_text)
    /\ outcome.word_count = SplitCount(outcome.full_text)
    /\ (outcome.full_text = <<>> => outcome.word_count = 0)

C14_Witness ==
  /\ Returned
  /\ outcome.success
  /\ outcome.word_count >= 2
  /\ Len(full_text) > outcome.character_count + 2
  /\ Len(outcome.pages) = 2

\* C15: every outcome with success=false has error set, full_text "", pages
\* empty and page_count 0; every outcome with success=true has no error
\* field.
C15_ErrorIffFailure ==
  Returned =>
    /\ ~outcome.success =>
         /\ {"error", "full_text", "pages", "page_count"} \subseteq DOMAIN outcome
         /\ outcome.full_text = <<>>
         /\ outcome.pages = <<>>
         /\ outcome.page_count = 0
    /\ outcome.success => "error" \notin DOMAIN outcome

C15_Witness ==
  /\ Returned
  /\ ~outcome.success
  /\ faults = {"metadata"}
  /\ pages_text # <<>>
  /\ outcome.error = "metadata"

\* ------------------------------- concurrent calls sharing http_session
\* Calls of RecruiteeClient.get and extract_pdf_text run as tasks of one
\* event loop: a task runs alone from one await to the next.
Tasks == 1..NumTasks

CallKinds == {"get", "extract_pdf_text"}

ConcInit ==
  /\ OrchIdle
  /\ PdfIdle
  /\ TwiceIdle
  /\ ServerIdle
  /\ tkind \in [Tasks -> CallKinds]
  /\ tpc = [t \in Tasks |-> "start"]
  /\ tsession = [t \in Tasks |-> 0]
  /\ sessions_created = 0
  /\ sessions_closed = {}
  /\ on_closed = {}

\* TaskBegin with the session made without looking at http_session
TaskBegin_Unchecked(t) ==
  /\ tpc[t] = "start"
  /\ \E ok \in BOOLEAN :
       IF ok
         THEN /\ http_session' = "open"
              /\ sessions_created' = sessions_created + 1
              /\ tsession' = [tsession EXCEPT ![t] = sessions_created + 1]
              /\ tpc' = [tpc EXCEPT ![t] = "awaiting"]
         ELSE /\ tpc' = [tpc EXCEPT ![t] = "raised"]
              /\ UNCHANGED <<http_session, sessions_created, tsession>>
  /\ UNCHANGED <<orchVars, pdfLocals, twiceVars, serverVars, tkind, lifeVars>>

\* up to the first await of a call: if not http_session: http_session =
\* aiohttp.ClientSession(), then http_session.get(...) on the global.  The
\* object in the global is the one created last.
TaskBegin(t) ==
  /\ tpc[t] = "start"
  /\ IF http_session = "none"
       THEN \E ok \in BOOLEAN :
              IF ok
                THEN /\ http_session' = "open"
                     /\ sessions_created' = sessions_created + 1
                     /\ tsession' = [tsession EXCEPT ![t] = sessions_created + 1]
                     /\ tpc' = [tpc EXCEPT ![t] = "awaiting"]
                ELSE /\ tpc' = [tpc EXCEPT ![t] = "raised"]
                     /\ UNCHANGED <<http_session, sessions_created, tsession>>
       ELSE /\ tsession' = [tsession EXCEPT ![t] = sessions_created]
            /\ tpc' = [tpc EXCEPT ![t] = "awaiting"]
            /\ UNCHANGED <<http_session, sessions_created>>
  /\ UNCHANGED <<orchVars, pdfLocals, twiceVars, serverVars, tkind, lifeVars>>

\* the response arrives: get returns the JSON or raises on a status other
\* than 200 or a fault; extract_pdf_text returns a success or failure dict
TaskRespond(t) ==
  /\ tpc[t] = "awaiting"
  /\ \E ok \in BOOLEAN :
       tpc' = [tpc EXCEPT ![t] =
                 IF ok THEN "returned"
                 ELSE IF tkind[t] = "get" THEN "raised" ELSE "returned failure"]
  /\ UNCHANGED <<orchVars, pdfVars, twiceVars, serverVars, tkind, tsession,
                 sessions_created, lifeVars>>

Begin == \E t \in Tasks : TaskBegin(t)

Respond == \E t \in Tasks : TaskRespond(t)

ConcNext ==
  \/ Begin
  \/ Respond

SpecConc == ConcInit /\ [][ConcNext]_vars

\* C16: in every interleaving of concurrent get and extract_pdf_text calls
\* the session is created by the first call that needs it, at most one
\* session object is ever created, and every call that issues a request uses
\* that one object.
C16_OneSession ==
  /\ sessions_created <= 1
  /\ (sessions_created = 0) = (http_session = "none")
  /\ \A t \in Tasks :
       /\ tpc[t] \in {"awaiting", "returned", "returned failure"} => tsession[t] = 1
       /\ tsession[t] \in {0, 1}
  /\ (\A t \in Tasks : tsession[t] = 0) => sessions_created = 0

C16_Witness ==
  /\ sessions_created = 1
  /\ \A t \in Tasks : tsession[t] = 1
  /\ \E t, u \in Tasks : tkind[t] = "get" /\ tkind[u] = "extract_pdf_text"
  /\ \E t \in Tasks : tpc[t] = "awaiting"
  /\ \E t \in Tasks : tpc[t] = "returned failure"

\* ----------------------------------------------------- cleanup and after
\* LifeInit: the server has just started, no session yet
LifeInit == ConcInit

\* a call of get or extract_pdf_text up to its first await, in a server
\* where cleanup() may have run: a closed ClientSession object is still true
\* in `if not http_session`, and a request on it raises at once, which get
\* re-raises and extract_pdf_text turns into a failure dict
LifeBegin(t) ==
  /\ tpc[t] = "start"
  /\ IF http_session = "none"
       THEN /\ \E ok \in BOOLEAN :
                 IF ok
                   THEN /\ http_session' = "open"
                        /\ sessions_created' = sessions_created + 1
                        /\ tsession' = [tsession EXCEPT ![t] = sessions_created + 1]
                        /\ tpc' = [tpc EXCEPT ![t] = "awaiting"]
                   ELSE /\ tpc' = [tpc EXCEPT ![t] = "raised"]
                        /\ UNCHANGED <<http_session, sessions_created, tsession>>
            /\ UNCHANGED on_closed
       ELSE /\ tsession' = [tsession EXCEPT ![t] = sessions_created]
            /\ IF http_session = "closed"
                 THEN /\ on_closed' = on_closed \cup {t}
                      /\ tpc' = [tpc EXCEPT ![t] =
                                   IF tkind[t] = "get" THEN "raised"
                                   ELSE "returned failure"]
                 ELSE /\ tpc' = [tpc EXCEPT ![t] = "awaiting"]
                      /\ UNCHANGED on_closed
            /\ UNCHANGED <<http_session, sessions_created>>
  /\ UNCHANGED <<orchVars, pdfLocals, twiceVars, serverVars, tkind,
                 sessions_closed>>

\* cleanup(): if http_session: await http_session.close()
CleanupSession ==
  /\ http_session # "none"
  /\ http_session' = "closed"
  /\ sessions_closed' = sessions_closed \cup {sessions_created}
  /\ UNCHANGED <<orchVars, pdfLocals, twiceVars, serverVars, tpc, tkind,
                 tsession, sessions_created, on_closed>>

LifeCall == \E t \in Tasks : LifeBegin(t)

LifeNext ==
  \/ LifeCall
  \/ Respond
  \/ CleanupSession

SpecLife == LifeInit /\ [][LifeNext]_vars

\* C22: after cleanup() has closed the global session, no later get or
\* extract_pdf_text call issues a request on the closed session: a call made
\* after teardown first creates a fresh session.
C22_NoRequestOnClosedSession == on_closed = {}

\* ------------------------------------------------- get_client, client.get
\* what os.getenv gives for one variable: None ("unset"), "" or a value
EnvSet(v) == v \notin {"unset", ""}

\* get_client() returns a client: there is one, or both variables are set
ClientAvailable ==
  \/ recruitee_client = "set"
  \/ /\ EnvSet(environ.RECRUITEE_API_TOKEN)
     /\ EnvSet(environ.RECRUITEE_COMPANY_ID)

\* what one RecruiteeClient.get call can do: return the JSON of a 200
\* response, raise for another status or a network fault, or raise because
\* the session it has to create first cannot be created
GetOutcomes ==
  {"ok", "request failed"} \cup
    (IF http_session = "none" THEN {"no session"} ELSE {})

\* http_session after a get call with outcome g
SessionAfter(g) == IF g = "no session" THEN http_session ELSE "open"

\* ---------------------------------------------------------- API data
\* str.lower() on the letters used here
LowerChar(ch) ==
  CASE ch = "A" -> "a"
    [] ch = "B" -> "b"
    [] OTHER -> ch

Lower(t) == [i \in 1..Len(t) |-> LowerChar(t[i])]

\* sub in t, for two strings
Contains(sub, t) ==
  \E i \in 1..(Len(t) + 1) :
    /\ i + Len(sub) - 1 <= Len(t)
    /\ SubSeq(t, i, i + Len(sub) - 1) = sub

\* str(offer_id)
Str(n) == ToString(n)

\* the candidates the API knows, as /candidates lists them
CandPool ==
  {[id |-> 1,
    placements |-> <<[offer_id |-> 1, stage |-> [name |-> <<"A", "b">>]]>>,
    status |-> <<"A">>, cv_url |-> "cv1.pdf", cv |-> "",
    cover_letter |-> <<"h", "i">>, cover_letter_file_url |-> "cl1.pdf",
    open_question_answers |-> <<[content |-> <<"y">>], [content |-> <<SP>>],
                                [content |-> <<"n">>]>>],
   [id |-> 2,
    placements |-> <<[offer_id |-> 2, stage |-> [name |-> <<"B">>]],
                     [offer_id |-> 1, stage |-> [name |-> <<"b", "a">>]]>>,
    status |-> <<"B">>, cv_url |-> "", cv |-> "",
    cover_letter |-> <<>>, cover_letter_file_url |-> "cl2.pdf",
    open_question_answers |-> <<>>],
   [id |-> 3,
    placements |-> <<>>,
    status |-> <<"A", "B">>, cv_url |-> "", cv |-> "cv3",
    cover_letter |-> <<>>, cover_letter_file_url |-> "",
    open_question_answers |-> <<[content |-> <<"n">>]>>]}

\* the "candidates" lists a /candidates response can carry
CandLists == UNION {[1..n -> CandPool] : n \in 0..MaxCands}

\* ------------------------------------------------------ search_candidates
\* the filter arguments search_candidates is called with; an empty list or
\* string stands for None as well, has_cv and has_cover_letter are "None",
\* "True" or "False"
SearchFilters ==
  {[job_ids |-> <<>>, stage_names |-> <<>>, status |-> <<>>,
    has_cv |-> "None", has_cover_letter |-> "None"],
   [job_ids |-> <<"1">>, stage_names |-> <<>>, status |-> <<>>,
    has_cv |-> "None", has_cover_letter |-> "None"],
   [job_ids |-> <<>>, stage_names |-> <<<<"x">>, <<"a">>>>, status |-> <<>>,
    has_cv |-> "None", has_cover_letter |-> "None"],
   [job_ids |-> <<>>, stage_names |-> <<>>, status |-> <<"a">>,
    has_cv |-> "None", has_cover_letter |-> "None"],
   [job_ids |-> <<>>, stage_names |-> <<>>, status |-> <<>>,
    has_cv |-> "True", has_cover_letter |-> "None"],
   [job_ids |-> <<"3", "2">>, stage_names |-> <<>>, status |-> <<>>,
    has_cv |-> "False", has_cover_letter |-> "False"],
   [job_ids |-> <<>>, stage_names |-> <<>>, status |-> <<>>,
    has_cv |-> "None", has_cover_letter |-> "True"]}

SearchInit ==
  /\ OrchIdle
  /\ ClientHistIdle
  /\ PdfIdle
  /\ TwiceIdle
  /\ ConcIdle
  /\ recruitee_client \in {"none", "set"}
  /\ environ \in {[RECRUITEE_API_TOKEN |-> "tok", RECRUITEE_COMPANY_ID |-> "co"],
                  [RECRUITEE_API_TOKEN |-> "unset", RECRUITEE_COMPANY_ID |-> "co"]}
  /\ s_pc = "start"
  /\ s_args \in {[filters |-> f, limit |-> l, offset |-> o] :
                   f \in SearchFilters, l \in (-1)..MaxLimit, o \in (-1)..MaxOffset}
  /\ all_candidates = <<>>
  /\ s_i = 0
  /\ filtered_candidates = <<>>
  /\ search_result = NoResult
  /\ ToolIdle

\* client = get_client(); candidates_data = await client.get("/candidates");
\* all_candidates; filtered_candidates = []
SearchFetch ==
  /\ s_pc = "start"
  /\ IF ~ClientAvailable
       THEN /\ s_pc' = "raised"
            /\ UNCHANGED <<recruitee_client, http_session, all_candidates>>
       ELSE /\ recruitee_client' = "set"
            /\ \E g \in GetOutcomes :
                 /\ http_session' = SessionAfter(g)
                 /\ IF g = "ok"
                      THEN /\ all_candidates' \in CandLists
                           /\ s_pc' = "filter"
                      ELSE /\ s_pc' = "raised"
                           /\ UNCHANGED all_candidates
  /\ s_i' = 0
  /\ filtered_candidates' = <<>>
  /\ UNCHANGED <<environ, s_args, search_result>>
  /\ UNCHANGED <<nonServer, toolVars>>

\* bool(x) for a URL or file name
NonEmpty(x) == x # ""

\* the five filters of the loop body: the candidate is kept
Passes(cand, f) ==
  /\ f.job_ids # <<>> =>
       \E k \in 1..Len(f.job_ids) : \E q \in 1..Len(cand.placements) :
         f.job_ids[k] = Str(cand.placements[q].offer_id)
  /\ f.stage_names # <<>> =>
       \E q \in 1..Len(cand.placements) : \E k \in 1..Len(f.stage_names) :
         Contains(Lower(f.stage_names[k]), Lower(cand.placements[q].stage.name))
  /\ f.status # <<>> => Contains(Lower(f.status), Lower(cand.status))
  /\ f.has_cv # "None" =>
       (f.has_cv = "True") = (NonEmpty(cand.cv_url) \/ NonEmpty(cand.cv))
  /\ f.has_cover_letter # "None" =>
       (f.has_cover_letter = "True") = Truthy(cand.cover_letter)

\* one round of: for candidate in all_candidates
SearchFilter ==
  /\ s_pc = "filter"
  /\ s_i < Len(all_candidates)
  /\ filtered_candidates' =
       IF Passes(all_candidates[s_i + 1], s_args.filters)
         THEN Append(filtered_candidates, all_candidates[s_i + 1])
         ELSE filtered_candidates
  /\ s_i' = s_i + 1
  /\ UNCHANGED <<clientVars, http_session, s_pc, s_args, all_candidates,
                 search_result>>
  /\ UNCHANGED <<nonServer, toolVars>>

Min(a, b) == IF a < b THEN a ELSE b
Max(a, b) == IF a > b THEN a ELSE b

\* a slice bound as Python clamps it for a list of length n
Clamp(k, n) == IF k < 0 THEN Max(n + k, 0) ELSE Min(k, n)

\* lst[a:b]
PySlice(lst, a, b) ==
  LET lo == Clamp(a, Len(lst))
      hi == Clamp(b, Len(lst))
  IN IF hi <= lo THEN <<>> ELSE SubSeq(lst, lo + 1, hi)

\* SearchPage with filtered_candidates[offset:limit]
SearchPage_EndAtLimit ==
  /\ s_pc = "filter"
  /\ s_i = Len(all_candidates)
  /\ LET page == PySlice(filtered_candidates, s_args.offset, s_args.limit)
     IN search_result' =
          [total_found |-> Len(filtered_candidates),
           returned |-> Len(page),
           offset |-> s_args.offset,
           limit |-> s_args.limit,
           candidates |-> page]
  /\ s_pc' = "returned"
  /\ UNCHANGED <<clientVars, http_session, s_args, all_candidates, s_i,
                 filtered_candidates>>
  /\ UNCHANGED <<nonServer, toolVars>>

\* after the loop: the pagination and the dict returned
SearchPage ==
  /\ s_pc = "filter"
  /\ s_i = Len(all_candidates)
  /\ LET page == PySlice(filtered_candidates, s_args.offset,
                         s_args.offset + s_args.limit)
     IN search_result' =
          [total_found |-> Len(filtered_candidates),
           returned |-> Len(page),
           offset |-> s_args.offset,
           limit |-> s_args.limit,
           candidates |-> page]
  /\ s_pc' = "returned"
  /\ UNCHANGED <<clientVars, http_session, s_args, all_candidates, s_i,
                 filtered_candidates>>
  /\ UNCHANGED <<nonServer, toolVars>>

SearchNext ==
  \/ SearchFetch
  \/ SearchFilter
  \/ SearchPage

SpecSearch == SearchInit /\ [][SearchNext]_vars

\* the candidates of the response that pass the filters, in API order
PassingCandidates ==
  LET Keep(cand) == Passes(cand, s_args.filters)
  IN SelectSeq(all_candidates, Keep)

\* C20: for non-negative offset and limit search_candidates returns the
\* contiguous slice filtered[offset : offset+limit] of the candidates passing
\* the filters, in API order, with returned == len(candidates) <= limit and
\* total_found the number of all passing candidates, whatever offset and
\* limit are.
C20_PageIsSlice ==
  (s_pc = "returned" /\ s_args.offset >= 0 /\ s_args.limit >= 0) =>
    LET n == Len(PassingCandidates)
        k == Max(0, Min(s_args.limit, n - s_args.offset))
    IN /\ search_result.candidates =
            [i \in 1..k |-> PassingCandidates[s_args.offset + i]]
       /\ search_result.returned = Len(search_result.candidates)
       /\ search_result.returned <= s_args.limit
       /\ search_result.total_found = n

C20_Witness ==
  /\ s_pc = "returned"
  /\ s_args.offset = 1
  /\ s_args.limit = 1
  /\ Len(all_candidates) = 3
  /\ search_result.total_found = 3
  /\ search_result.returned = 1
  /\ search_result.candidates[1] = all_candidates[2]
  /\ all_candidates[2] # all_candidates[1]
  /\ s_args.filters.has_cv = "True"

\* --------------------------------------------------- get_candidate_profile
\* d[k] = v on a dict
Put(d, k, v) == [x \in (DOMAIN d) \cup {k} |-> IF x = k THEN v ELSE d[x]]

\* the record the API holds for a candidate id
CandById(id) == CHOOSE cand \in CandPool : cand.id = id

CandIds == {cand.id : cand \in CandPool}

\* the "documents" and the "screening" lists the two sub-fetches can deliver
DocumentLists == {<<>>, <<"cv1.pdf">>}
ScreeningLists == {<<>>, <<"answer">>}

\* what a sub-fetch inside its own try/except does: a list, or an exception
SubFetches(lists) == {Returning(l) : l \in lists} \cup {Raising("request failed")}

\* the dicts extract_pdf_text() returns to its callers: a failure, a PDF with
\* one page of text, a PDF whose only page has no text
ExtractReturns ==
  {Failure("HTTP 404"),
   Success(<<"a", NL, NL>>, <<[page_number |-> 1, text |-> <<"a">>]>>, 1),
   Success(<<>>, <<>>, 1)}

\* extract_pdf_text() as a call: it returns one of its dicts, or raises where
\* it has to create the session and cannot
ExtractOutcomes ==
  {Returning(x) : x \in ExtractReturns} \cup
    (IF http_session = "none" THEN {Raising("no session")} ELSE {})

\* cv_text_summary / cover_letter_pdf_summary for an extraction dict
TextSummary(flag, x) ==
  IF x.success
    THEN Put([page_count |-> x.page_count,
              character_count |-> x.character_count,
              word_count |-> x.word_count,
              extraction_method |-> "pdfplumber"], flag, TRUE)
    ELSE Put([error |-> x.error, extraction_method |-> "pdfplumber"],
             flag, FALSE)

\* the two entries written when there is no URL to extract from
NoUrlExtraction(msg) == Failure(msg)
NoUrlSummary(flag, msg) == Put([error |-> msg], flag, FALSE)

\* one entry of the history p_log
Did(op, ok) == [op |-> op, ok |-> ok]

\* the except clause of get_candidate_profile: log and raise a new Exception
ProfileRaise(msg) ==
  /\ p_pc' = "raised"
  /\ p_result' = Raising("Failed to get candidate profile: " \o msg)

ProfileInit ==
  /\ OrchIdle
  /\ ClientHistIdle
  /\ PdfIdle
  /\ TwiceIdle
  /\ ConcIdle
  /\ SearchIdle
  /\ EvalIdle
  /\ PipeIdle
  /\ recruitee_client \in {"none", "set"}
  /\ environ \in {[RECRUITEE_API_TOKEN |-> "tok", RECRUITEE_COMPANY_ID |-> "co"],
                  [RECRUITEE_API_TOKEN |-> "tok", RECRUITEE_COMPANY_ID |-> ""]}
  /\ p_pc = "start"
  /\ candidate_id \in CandIds
  /\ candidate = NoResult
  /\ p_log = <<>>
  /\ p_result = NoResult
  /\ invoked = {}

\* client = get_client(), before the try
ProfileClient ==
  /\ p_pc = "start"
  /\ invoked' = invoked \cup {"get_candidate_profile"}
  /\ IF ClientAvailable
       THEN /\ recruitee_client' = "set"
            /\ p_pc' = "main"
            /\ UNCHANGED p_result
       ELSE /\ p_pc' = "raised"
            /\ p_result' = Raising("ValueError")
            /\ UNCHANGED recruitee_client
  /\ UNCHANGED <<environ, http_session, candidate_id, candidate, p_log>>
  /\ UNCHANGED <<nonServer, searchVars, evalVars, pipeVars>>

\* candidate_data = await client.get(f"/candidates/{candidate_id}")
ProfileMain ==
  /\ p_pc = "main"
  /\ \E g \in GetOutcomes :
       /\ http_session' = SessionAfter(g)
       /\ p_log' = Append(p_log, Did("candidate", g = "ok"))
       /\ IF g = "ok"
            THEN /\ candidate' = CandById(candidate_id)
                 /\ p_pc' = "documents"
                 /\ UNCHANGED p_result
            ELSE /\ ProfileRaise(g)
                 /\ UNCHANGED candidate
  /\ UNCHANGED <<clientVars, candidate_id, invoked>>
  /\ UNCHANGED <<nonServer, searchVars, evalVars, pipeVars>>

\* ProfileDocuments without the inner try/except
ProfileDocuments_Unguarded ==
  /\ p_pc = "documents"
  /\ \E d \in SubFetches(DocumentLists) :
       /\ p_log' = Append(p_log, Did("documents", ~d.exc))
       /\ IF d.exc
            THEN /\ ProfileRaise(d.error)
                 /\ UNCHANGED candidate
            ELSE /\ candidate' = Put(candidate, "documents", d.value)
                 /\ p_pc' = "screening"
                 /\ UNCHANGED p_result
  /\ UNCHANGED <<clientVars, http_session, candidate_id, invoked>>
  /\ UNCHANGED <<nonServer, searchVars, evalVars, pipeVars>>

\* try: documents = await client.get(.../documents) except: documents = []
ProfileDocuments ==
  /\ p_pc = "documents"
  /\ \E d \in SubFetches(DocumentLists) :
       /\ p_log' = Append(p_log, Did("documents", ~d.exc))
       /\ candidate' = Put(candidate, "documents",
                           IF d.exc THEN <<>> ELSE d.value)
  /\ p_pc' = "screening"
  /\ UNCHANGED <<clientVars, http_session, candidate_id, p_result, invoked>>
  /\ UNCHANGED <<nonServer, searchVars, evalVars, pipeVars>>

\* try: screening = await client.get(.../screening) except: screening = []
ProfileScreening ==
  /\ p_pc = "screening"
  /\ \E d \in SubFetches(ScreeningLists) :
       /\ p_log' = Append(p_log, Did("screening", ~d.exc))
       /\ candidate' = Put(candidate, "screening",
                           IF d.exc THEN <<>> ELSE d.value)
  /\ p_pc' = "cv"
  /\ UNCHANGED <<clientVars, http_session, candidate_id, p_result, invoked>>
  /\ UNCHANGED <<nonServer, searchVars, evalVars, pipeVars>>

\* the extraction of one PDF of the candidate: url is the field read, into
\* and summary the two fields written, flag the summary's has_... key, msg
\* the error when there is no URL, next the position after it
ProfileExtract(op, url, into, summary, flag, msg, next) ==
  IF NonEmpty(candidate[url])
    THEN /\ invoked' = invoked \cup {"extract_pdf_text"}
         /\ \E x \in ExtractOutcomes :
              IF x.exc
                THEN /\ ProfileRaise(x.error)
                     /\ p_log' = Append(p_log, Did(op, FALSE))
                     /\ UNCHANGED candidate
                ELSE /\ candidate' =
                          Put(Put(candidate, into, x.value),
                              summary, TextSummary(flag, x.value))
                     /\ p_log' = Append(p_log, Did(op, x.value.success))
                     /\ p_pc' = next
                     /\ UNCHANGED p_result
    ELSE /\ candidate' =
              Put(Put(candidate, into, NoUrlExtraction(msg)),
                  summary, NoUrlSummary(flag, msg))
         /\ p_pc' = next
         /\ UNCHANGED <<p_log, p_result, invoked>>

\* cv_url = candidate.get("cv_url") and the if/else on it
ProfileCv ==
  /\ p_pc = "cv"
  /\ ProfileExtract("cv", "cv_url", "cv_full_text_extraction",
                    "cv_text_summary", "has_full_text",
                    "No CV URL available", "cover_letter")
  /\ UNCHANGED <<clientVars, http_session, candidate_id>>
  /\ UNCHANGED <<nonServer, searchVars, evalVars, pipeVars>>

\* cover_letter_file_url = candidate.get(...) and the if/else on it
ProfileCoverLetter ==
  /\ p_pc = "cover_letter"
  /\ ProfileExtract("cover_letter", "cover_letter_file_url",
                    "cover_letter_pdf_extraction", "cover_letter_pdf_summary",
                    "has_pdf_text", "No cover letter PDF URL available",
                    "summary")
  /\ UNCHANGED <<clientVars, http_session, candidate_id>>
  /\ UNCHANGED <<nonServer, searchVars, evalVars, pipeVars>>

\* candidate["cover_letter_unified_summary"]
UnifiedSummary(api, pdf) ==
  [has_api_text |-> Truthy(api),
   has_pdf_text |-> Truthy(pdf),
   api_character_count |-> IF Truthy(api) THEN Len(api) ELSE 0,
   pdf_character_count |-> IF Truthy(pdf) THEN Len(pdf) ELSE 0,
   total_sources |-> (IF Truthy(api) THEN 1 ELSE 0) + (IF Truthy(pdf) THEN 1 ELSE 0),
   recommendation |->
     IF Truthy(pdf) /\ ~Truthy(api) THEN "Use PDF text"
     ELSE IF Truthy(api) /\ ~Truthy(pdf) THEN "Use API text"
     ELSE IF Truthy(api) /\ Truthy(pdf) THEN "Compare both sources"
     ELSE "No cover letter available"]

\* the unified cover letter summary and return candidate
ProfileReturn ==
  /\ p_pc = "summary"
  /\ candidate' =
       Put(candidate, "cover_letter_unified_summary",
           UnifiedSummary(candidate.cover_letter,
                          candidate.cover_letter_pdf_extraction.full_text))
  /\ p_result' = Returning(candidate')
  /\ p_pc' = "returned"
  /\ UNCHANGED <<clientVars, http_session, candidate_id, p_log, invoked>>
  /\ UNCHANGED <<nonServer, searchVars, evalVars, pipeVars>>

ProfileNext ==
  \/ ProfileClient
  \/ ProfileMain
  \/ ProfileDocuments
  \/ ProfileScreening
  \/ ProfileCv
  \/ ProfileCoverLetter
  \/ ProfileReturn

SpecProfile == ProfileInit /\ [][ProfileNext]_vars

\* what the history says about one operation
Performed(op) == \E i \in 1..Len(p_log) : p_log[i].op = op
FailedOp(op) == \E i \in 1..Len(p_log) : p_log[i] = Did(op, FALSE)

\* the operations of p_log, in order
LogOps == [i \in 1..Len(p_log) |-> p_log[i].op]

\* the operations a call has performed once the main fetch has succeeded,
\* for the candidate fetched
ExpectedOps ==
  <<"candidate", "documents", "screening">>
    \o (IF NonEmpty(CandById(candidate_id).cv_url) THEN <<"cv">> ELSE <<>>)
    \o (IF NonEmpty(CandById(candidate_id).cover_letter_file_url)
          THEN <<"cover_letter">> ELSE <<>>)

EvalLists == UNION {[1..n -> CandPool] : n \in 0..MaxEvalCands}

\* the arguments the tool is called with; stage_filter <<>> is None or ""
EvalArgs ==
  {[job_id |-> j, stage_filter |-> f, include_full_cv |-> b] :
     j \in {"1", "2"}, f \in {<<>>, <<"B">>}, b \in BOOLEAN}

\* d.get(k, dflt) on a dict
GetOr(d, k, dflt) == IF k \in DOMAIN d THEN d[k] ELSE dflt

\* the stage filter of the loop: the candidate is not skipped
StageMatch(cand, args) ==
  \/ ~Truthy(args.stage_filter)
  \/ \E q \in 1..Len(cand.placements) :
       /\ Str(cand.placements[q].offer_id) = args.job_id
       /\ Contains(Lower(args.stage_filter), Lower(cand.placements[q].stage.name))

\* the evaluation_profile dict: its identity and CV fields
EvaluationProfile(full_profile, args) ==
  [candidate_id |-> GetOr(full_profile, "id", "None"),
   cv_text |-> IF args.include_full_cv
                 THEN GetOr(GetOr(full_profile, "cv_full_text_extraction", <<>>),
                            "full_text", <<>>)
                 ELSE <<>>,
   cv_available |-> NonEmpty(GetOr(full_profile, "cv_url", "")),
   cv_pages |-> IF args.include_full_cv
                  THEN GetOr(GetOr(full_profile, "cv_text_summary", <<>>),
                             "page_count", 0)
                  ELSE 0,
   cv_word_count |-> IF args.include_full_cv
                       THEN GetOr(GetOr(full_profile, "cv_text_summary", <<>>),
                                  "word_count", 0)
                       ELSE 0,
   cv_processing_skipped |-> ~args.include_full_cv]

\* the minimal_candidate dict of the except clause
MinimalCandidate(cand, err) ==
  [candidate_id |-> cand.id,
   error |-> "Failed to fetch full evaluation data: " \o err]

\* what the body of the inner try leaves for a candidate: r is what fetching
\* its profile did, fault whether building the evaluation profile raised
EvalEntry(cand, r, fault) ==
  IF r.exc THEN MinimalCandidate(cand, r.error)
  ELSE IF fault THEN MinimalCandidate(cand, "processing")
  ELSE EvaluationProfile(r.value, e_args)

\* EvalCollect that only logs a failed candidate
EvalCollect_DropFailed(cand, r) ==
  /\ \E fault \in BOOLEAN :
       evaluation_candidates' =
         IF r.exc \/ fault
           THEN evaluation_candidates
           ELSE Append(evaluation_candidates, EvalEntry(cand, r, fault))
  /\ e_i' = e_i + 1
  /\ e_pc' = "loop"

\* the rest of the inner try and its except clause: one append, either way
EvalCollect(cand, r) ==
  /\ \E fault \in BOOLEAN :
       evaluation_candidates' =
         Append(evaluation_candidates, EvalEntry(cand, r, fault))
  /\ e_i' = e_i + 1
  /\ e_pc' = "loop"

EvalInit ==
  /\ OrchIdle
  /\ ClientHistIdle
  /\ PdfIdle
  /\ TwiceIdle
  /\ ConcIdle
  /\ SearchIdle
  /\ ProfileIdle
  /\ PipeIdle
  /\ recruitee_client = "none"
  /\ environ \in {[RECRUITEE_API_TOKEN |-> "tok", RECRUITEE_COMPANY_ID |-> "co"],
                  [RECRUITEE_API_TOKEN |-> "", RECRUITEE_COMPANY_ID |-> "co"]}
  /\ e_pc = "start"
  /\ e_args \in EvalArgs
  /\ e_all_candidates = <<>>
  /\ e_i = 0
  /\ evaluation_candidates = <<>>
  /\ e_result = NoResult
  /\ invoked = {}

\* client = get_client(); candidates_data = await client.get("/candidates");
\* all_candidates; evaluation_candidates = []
EvalFetch ==
  /\ e_pc = "start"
  /\ IF ~ClientAvailable
       THEN /\ e_pc' = "raised"
            /\ UNCHANGED <<recruitee_client, http_session, e_all_candidates>>
       ELSE /\ recruitee_client' = "set"
            /\ \E g \in GetOutcomes :
                 /\ http_session' = SessionAfter(g)
                 /\ IF g = "ok"
                      THEN /\ e_all_candidates' \in EvalLists
                           /\ e_pc' = "loop"
                      ELSE /\ e_pc' = "raised"
                           /\ UNCHANGED e_all_candidates
  /\ evaluation_candidates' = <<>>
  /\ UNCHANGED <<environ, e_args, e_i, e_result, invoked>>
  /\ UNCHANGED <<nonServer, searchVars, profileVars, pipeVars>>

\* a loop round for a candidate the stage filter rejects: continue
EvalSkip ==
  /\ e_pc = "loop"
  /\ e_i < Len(e_all_candidates)
  /\ ~StageMatch(e_all_candidates[e_i + 1], e_args)
  /\ e_i' = e_i + 1
  /\ UNCHANGED <<clientVars, http_session, e_pc, e_args, e_all_candidates,
                 evaluation_candidates, e_result, invoked>>
  /\ UNCHANGED <<nonServer, searchVars, profileVars, pipeVars>>

\* EvalCandidate calling get_candidate_profile whatever include_full_cv is
EvalCandidate_AlwaysProfile ==
  /\ e_pc = "loop"
  /\ e_i < Len(e_all_candidates)
  /\ StageMatch(e_all_candidates[e_i + 1], e_args)
  /\ p_pc' = "start"
  /\ candidate_id' = e_all_candidates[e_i + 1].id
  /\ e_pc' = "awaiting"
  /\ UNCHANGED <<candidate, p_log, p_result, http_session, e_i,
                 evaluation_candidates>>
  /\ UNCHANGED <<clientVars, e_args, e_all_candidates, e_result, invoked>>
  /\ UNCHANGED <<nonServer, searchVars, pipeVars>>

\* a loop round for a candidate that passes the filter: with include_full_cv
\* the call of get_candidate_profile, else the whole round with the basic
\* profile fetched by client.get
EvalCandidate ==
  /\ e_pc = "loop"
  /\ e_i < Len(e_all_candidates)
  /\ StageMatch(e_all_candidates[e_i + 1], e_args)
  /\ LET cand == e_all_candidates[e_i + 1]
     IN IF e_args.include_full_cv
          THEN /\ p_pc' = "start"
               /\ candidate_id' = cand.id
               /\ e_pc' = "awaiting"
               /\ UNCHANGED <<candidate, p_log, p_result, http_session, e_i,
                              evaluation_candidates>>
          ELSE /\ \E g \in GetOutcomes :
                    /\ http_session' = SessionAfter(g)
                    /\ EvalCollect(cand, IF g = "ok"
                                           THEN Returning(CandById(cand.id))
                                           ELSE Raising(g))
               /\ UNCHANGED profileVars
  /\ UNCHANGED <<clientVars, e_args, e_all_candidates, e_result, invoked>>
  /\ UNCHANGED <<nonServer, searchVars, pipeVars>>

\* get_candidate_profile has returned or raised: the rest of the round
EvalResume ==
  /\ e_pc = "awaiting"
  /\ p_pc \in {"returned", "raised"}
  /\ EvalCollect(e_all_candidates[e_i + 1], p_result)
  /\ p_pc' = "idle"
  /\ candidate_id' = 0
  /\ candidate' = NoResult
  /\ p_log' = <<>>
  /\ p_result' = NoResult
  /\ UNCHANGED <<clientVars, http_session, e_args, e_all_candidates, e_result,
                 invoked>>
  /\ UNCHANGED <<nonServer, searchVars, pipeVars>>

\* after the loop: the result dict
EvalReturn ==
  /\ e_pc = "loop"
  /\ e_i = Len(e_all_candidates)
  /\ e_result' = [job_id |-> e_args.job_id,
                  stage_filter |-> e_args.stage_filter,
                  include_full_cv |-> e_args.include_full_cv,
                  total_candidates |-> Len(evaluation_candidates),
                  candidates |-> evaluation_candidates]
  /\ e_pc' = "returned"
  /\ UNCHANGED <<clientVars, http_session, e_args, e_all_candidates, e_i,
                 evaluation_candidates, invoked>>
  /\ UNCHANGED <<nonServer, searchVars, profileVars, pipeVars>>

EvalNext ==
  \/ EvalFetch
  \/ EvalSkip
  \/ EvalCandidate
  \/ EvalResume
  \/ EvalReturn
  \/ ProfileNext

SpecEval == EvalInit /\ [][EvalNext]_vars

\* the first n candidates of the response that pass the stage filter
PassingUpTo(n) ==
  LET Keep(cand) == StageMatch(cand, e_args)
  IN SelectSeq(SubSeq(e_all_candidates, 1, n), Keep)

IsMinimal(entry) == "error" \in DOMAIN entry
IsFull(entry) == "cv_processing_skipped" \in DOMAIN entry

\* C18: once the candidate list is fetched, every candidate passing the stage
\* filter contributes exactly one entry, in API order, either the full
\* evaluation profile or a minimal profile with an error field; a failure for
\* one candidate does not stop the later ones, and the result has
\* total_candidates == len(candidates).
C18_OneEntryPerCandidate ==
  /\ e_pc \in {"loop", "awaiting", "returned"} =>
       /\ Len(evaluation_candidates) = Len(PassingUpTo(e_i))
       /\ \A k \in 1..Len(evaluation_candidates) :
            /\ evaluation_candidates[k].candidate_id = PassingUpTo(e_i)[k].id
            /\ IsMinimal(evaluation_candidates[k]) # IsFull(evaluation_candidates[k])
  /\ e_pc = "returned" =>
       /\ e_i = Len(e_all_candidates)
       /\ e_result.candidates = evaluation_candidates
       /\ e_result.total_candidates = Len(e_result.candidates)

C18_Witness ==
  /\ e_pc = "returned"
  /\ e_args.stage_filter = <<"B">>
  /\ e_result.total_candidates = 2
  /\ IsMinimal(e_result.candidates[1])
  /\ IsFull(e_result.candidates[2])
  /\ e_result.candidates[2].cv_text = <<"a">>

\* C19: with include_full_cv false neither get_candidate_profile nor
\* extract_pdf_text is invoked and every full profile entry has cv_text "",
\* cv_pages 0, cv_word_count 0 and cv_processing_skipped true; with
\* include_full_cv true cv_processing_skipped is false.
C19_CvSkippedWhenNotIncluded ==
  /\ ~e_args.include_full_cv =>
       /\ invoked = {}
       /\ p_pc = "idle"
       /\ \A k \in 1..Len(evaluation_candidates) :
            IsFull(evaluation_candidates[k]) =>
              /\ evaluation_candidates[k].cv_text = <<>>
              /\ evaluation_candidates[k].cv_pages = 0
              /\ evaluation_candidates[k].cv_word_count = 0
              /\ evaluation_candidates[k].cv_processing_skipped
  /\ e_args.include_full_cv =>
       \A k \in 1..Len(evaluation_candidates) :
         IsFull(evaluation_candidates[k]) =>
           ~evaluation_candidates[k].cv_processing_skipped

C19_Witness ==
  /\ e_pc = "returned"
  /\ ~e_args.include_full_cv
  /\ e_result.total_candidates >= 1
  /\ IsFull(e_result.candidates[1])
  /\ e_result.candidates[1].cv_available
  /\ e_result.candidates[1].cv_text = <<>>
  /\ invoked = {}

\* ------------------------------------------- get_candidates_from_pipeline
\* the arguments the tool is called with; stage_filter <<>> is None or ""
PipeArgs ==
  {[job_id |-> j, stage_filter |-> f] :
     j \in {"1", "2"}, f \in {<<>>, <<"B">>, <<"a", "b">>}}

\* what the inner try can do for one candidate: compute the summary, or
\* raise in the fetch or while reading the answers
PipeOutcomes == {"ok", "request failed", "bad answer"}

\* the number of answers with content and content.strip()
Answered(qs) ==
  Cardinality({k \in 1..Len(qs) :
                 Truthy(qs[k].content) /\ Truthy(Strip(qs[k].content))})

\* round((answered / total) * 100, 1) if total else 100.0, in tenths of a
\* percent
Completion(answered, total) ==
  IF total = 0 THEN 1000
  ELSE (2000 * answered + total) \div (2 * total)

\* screening_summary of the try block
ScreeningSummary(full_candidate) ==
  LET qs == GetOr(full_candidate, "open_question_answers", <<>>)
  IN [total_questions |-> Len(qs),
      answered_questions |-> Answered(qs),
      completion_percentage |-> Completion(Answered(qs), Len(qs))]

\* screening_summary of the except clause
ZeroedSummary ==
  [total_questions |-> 0,
   answered_questions |-> 0,
   completion_percentage |-> 0,
   note |-> "Could not fetch full profile for accurate calculation"]

\* the placements of the candidate for this job, as basic_candidate lists them
JobPlacements(cand, job_id) ==
  LET ForJob(pl) == Str(pl.offer_id) = job_id
      Mine == SelectSeq(cand.placements, ForJob)
  IN [k \in 1..Len(Mine) |->
        [offer_id |-> Mine[k].offer_id, stage |-> [name |-> Mine[k].stage.name]]]

\* basic_candidate
BasicCandidate(cand, summary, job_id) ==
  [id |-> cand.id,
   status |-> cand.status,
   screening_questions |-> summary,
   placements |-> JobPlacements(cand, job_id)]

PipeInit ==
  /\ OrchIdle
  /\ PdfIdle
  /\ TwiceIdle
  /\ ConcIdle
  /\ ClientHistIdle
  /\ SearchIdle
  /\ ProfileIdle
  /\ EvalIdle
  /\ invoked = {}
  /\ recruitee_client = "none"
  /\ environ \in {[RECRUITEE_API_TOKEN |-> "tok", RECRUITEE_COMPANY_ID |-> "co"],
                  [RECRUITEE_API_TOKEN |-> "tok", RECRUITEE_COMPANY_ID |-> "unset"]}
  /\ l_pc = "start"
  /\ l_args \in PipeArgs
  /\ l_all_candidates = <<>>
  /\ l_i = 0
  /\ pipeline_candidates = <<>>
  /\ l_fetches = <<>>
  /\ l_result = NoResult

\* client = get_client(); candidates_data = await client.get("/candidates");
\* all_candidates; pipeline_candidates = []
PipeFetch ==
  /\ l_pc = "start"
  /\ IF ~ClientAvailable
       THEN /\ l_pc' = "raised"
            /\ UNCHANGED <<recruitee_client, http_session, l_all_candidates>>
       ELSE /\ recruitee_client' = "set"
            /\ \E g \in GetOutcomes :
                 /\ http_session' = SessionAfter(g)
                 /\ IF g = "ok"
                      THEN /\ l_all_candidates' \in CandLists
                           /\ l_pc' = "loop"
                      ELSE /\ l_pc' = "raised"
                           /\ UNCHANGED l_all_candidates
  /\ pipeline_candidates' = <<>>
  /\ UNCHANGED <<environ, l_args, l_i, l_fetches, l_result>>
  /\ UNCHANGED <<nonServer, searchVars, profileVars, evalVars, invoked>>

\* a loop round for a candidate the stage filter rejects: continue
PipeSkip ==
  /\ l_pc = "loop"
  /\ l_i < Len(l_all_candidates)
  /\ ~StageMatch(l_all_candidates[l_i + 1], l_args)
  /\ l_i' = l_i + 1
  /\ UNCHANGED <<clientVars, http_session, l_pc, l_args, l_all_candidates,
                 pipeline_candidates, l_fetches, l_result>>
  /\ UNCHANGED <<nonServer, searchVars, profileVars, evalVars, invoked>>

\* PipeCandidate with the candidate left out when its profile fetch fails
PipeCandidate_DropFailed ==
  /\ l_pc = "loop"
  /\ l_i < Len(l_all_candidates)
  /\ StageMatch(l_all_candidates[l_i + 1], l_args)
  /\ LET cand == l_all_candidates[l_i + 1]
     IN \E o \in PipeOutcomes :
          IF o = "ok"
            THEN /\ l_fetches' = Append(l_fetches, o)
                 /\ pipeline_candidates' =
                      Append(pipeline_candidates,
                             BasicCandidate(cand, ScreeningSummary(CandById(cand.id)),
                                            l_args.job_id))
            ELSE UNCHANGED <<l_fetches, pipeline_candidates>>
  /\ l_i' = l_i + 1
  /\ UNCHANGED <<clientVars, http_session, l_pc, l_args, l_all_candidates,
                 l_result>>
  /\ UNCHANGED <<nonServer, searchVars, profileVars, evalVars, invoked>>

\* a loop round for a candidate that passes the filter: the profile fetch and
\* the screening summary in their try/except, basic_candidate, the append
PipeCandidate ==
  /\ l_pc = "loop"
  /\ l_i < Len(l_all_candidates)
  /\ StageMatch(l_all_candidates[l_i + 1], l_args)
  /\ LET cand == l_all_candidates[l_i + 1]
     IN \E o \in PipeOutcomes :
          /\ l_fetches' = Append(l_fetches, o)
          /\ pipeline_candidates' =
               Append(pipeline_candidates,
                      BasicCandidate(cand,
                                     IF o = "ok"
                                       THEN ScreeningSummary(CandById(cand.id))
                                       ELSE ZeroedSummary,
                                     l_args.job_id))
  /\ l_i' = l_i + 1
  /\ UNCHANGED <<clientVars, http_session, l_pc, l_args, l_all_candidates,
                 l_result>>
  /\ UNCHANGED <<nonServer, searchVars, profileVars, evalVars, invoked>>

\* after the loop: the result dict
PipeReturn ==
  /\ l_pc = "loop"
  /\ l_i = Len(l_all_candidates)
  /\ l_result' = [job_id |-> l_args.job_id,
                  stage_filter |-> l_args.stage_filter,
                  data_mode |-> "basic_summary",
                  total_candidates |-> Len(pipeline_candidates),
                  candidates |-> pipeline_candidates]
  /\ l_pc' = "returned"
  /\ UNCHANGED <<clientVars, http_session, l_args, l_all_candidates, l_i,
                 pipeline_candidates, l_fetches>>
  /\ UNCHANGED <<nonServer, searchVars, profileVars, evalVars, invoked>>

PipeNext ==
  \/ PipeFetch
  \/ PipeSkip
  \/ PipeCandidate
  \/ PipeReturn

SpecPipe == PipeInit /\ [][PipeNext]_vars

\* the candidate has a placement for the job, whose stage name contains the
\* filter, letter case aside
HasStagePlacement(cand) ==
  \E q \in 1..Len(cand.placements) :
    /\ ToString(cand.placements[q].offer_id) = l_args.job_id
    /\ LET name == Lower(cand.placements[q].stage.name)
           want == Lower(l_args.stage_filter)
       IN \E at \in 0..(Len(name) - Len(want)) :
            \A k \in 1..Len(want) : name[at + k] = want[k]

\* the candidates of the response the claim wants in the result
WantedCandidates ==
  LET Wanted(cand) == l_args.stage_filter = <<>> \/ HasStagePlacement(cand)
  IN SelectSeq(l_all_candidates, Wanted)

\* C23: with a non-empty stage_filter a candidate is included iff one of its
\* placements has offer_id equal to job_id as strings and a stage name that
\* contains stage_filter case-insensitively; with no stage_filter every
\* candidate of the response is included exactly once; total_candidates ==
\* len(candidates), and a candidate whose profile fetch failed is included
\* with a zeroed screening summary.
C23_StageFilteredList ==
  l_pc = "returned" =>
    /\ Len(l_result.candidates) = Len(WantedCandidates)
    /\ \A k \in 1..Len(l_result.candidates) :
         /\ l_result.candidates[k].id = WantedCandidates[k].id
         /\ LET summary == l_result.candidates[k].screening_questions
            IN IF l_fetches[k] = "ok"
                 THEN summary.total_questions =
                        Len(WantedCandidates[k].open_question_answers)
                 ELSE /\ summary.total_questions = 0
                      /\ summary.answered_questions = 0
                      /\ summary.completion_percentage = 0
    /\ l_result.total_candidates = Len(l_result.candidates)

C23_Witness ==
  /\ l_pc = "returned"
  /\ l_args.stage_filter = <<"B">>
  /\ l_args.job_id = "1"
  /\ Len(l_all_candidates) = 3
  /\ l_result.total_candidates = 2
  /\ l_result.candidates[1].id = 2
  /\ l_fetches = <<"request failed", "ok">>
  /\ l_result.candidates[2].screening_questions.completion_percentage = 667

\* ------------------------------------------------ get_client, on its own
\* what os.getenv can give for each of the two variables
EnvValues == {"unset", "", "a", "b"}

Environs == [{"RECRUITEE_API_TOKEN", "RECRUITEE_COMPANY_ID"} -> EnvValues]

ClientInit ==
  /\ OrchIdle
  /\ PdfIdle
  /\ TwiceIdle
  /\ ConcIdle
  /\ SearchIdle
  /\ ToolIdle
  /\ recruitee_client = "none"
  /\ environ \in Environs
  /\ g_rets = <<>>
  /\ client_made = <<>>

\* the environment is changed between two calls
SetEnv ==
  /\ environ' \in Environs \ {environ}
  /\ UNCHANGED <<recruitee_client, clientHist>>
  /\ UNCHANGED <<orchVars, pdfVars, twiceVars, concVars, searchVars, toolVars>>

\* GetClient reading the environment on every call
GetClient_NoCache ==
  /\ Len(g_rets) < MaxClientCalls
  /\ IF EnvSet(environ.RECRUITEE_API_TOKEN) /\ EnvSet(environ.RECRUITEE_COMPANY_ID)
       THEN /\ client_made' =
                 Append(client_made,
                        [api_token |-> environ.RECRUITEE_API_TOKEN,
                         company_id |-> environ.RECRUITEE_COMPANY_ID])
            /\ recruitee_client' = "set"
            /\ g_rets' = Append(g_rets, Returning(Len(client_made')))
       ELSE /\ g_rets' = Append(g_rets, Raising("ValueError"))
            /\ UNCHANGED <<recruitee_client, client_made>>
  /\ UNCHANGED environ
  /\ UNCHANGED <<orchVars, pdfVars, twiceVars, concVars, searchVars, toolVars>>

\* one call of get_client(); a client object is named by its place in
\* client_made, and the global, once set, refers to the last one made
GetClient ==
  /\ Len(g_rets) < MaxClientCalls
  /\ IF recruitee_client = "none"
       THEN IF EnvSet(environ.RECRUITEE_API_TOKEN)
               /\ EnvSet(environ.RECRUITEE_COMPANY_ID)
              THEN /\ client_made' =
                        Append(client_made,
                               [api_token |-> environ.RECRUITEE_API_TOKEN,
                                company_id |-> environ.RECRUITEE_COMPANY_ID])
                   /\ recruitee_client' = "set"
                   /\ g_rets' = Append(g_rets, Returning(Len(client_made')))
              ELSE /\ g_rets' = Append(g_rets, Raising("ValueError"))
                   /\ UNCHANGED <<recruitee_client, client_made>>
       ELSE /\ g_rets' = Append(g_rets, Returning(Len(client_made)))
            /\ UNCHANGED <<recruitee_client, client_made>>
  /\ UNCHANGED environ
  /\ UNCHANGED <<orchVars, pdfVars, twiceVars, concVars, searchVars, toolVars>>

ClientNext ==
  \/ SetEnv
  \/ GetClient

SpecClient == ClientInit /\ [][ClientNext]_vars

\* the calls that have returned a client so far
Successes == {i \in 1..Len(g_rets) : ~g_rets[i].exc}

\* the first of them
FirstSuccess == CHOOSE i \in Successes : \A j \in Successes : i <= j

\* C24: while no call has succeeded, get_client raises ValueError and leaves
\* the global unset if either variable is missing or empty, and succeeds if
\* both are set; once a call has succeeded, every later call returns the same
\* client object, whatever the variables are changed to.
C24_ClientCached ==
  [][Len(g_rets') = Len(g_rets) + 1 =>
       LET new == g_rets'[Len(g_rets')]
       IN IF Successes # {}
            THEN new = g_rets[FirstSuccess]
            ELSE IF EnvSet(environ.RECRUITEE_API_TOKEN)
                    /\ EnvSet(environ.RECRUITEE_COMPANY_ID)
                   THEN ~new.exc /\ recruitee_client' = "set"
                   ELSE /\ new = Raising("ValueError")
                        /\ recruitee_client' = "none"]_vars

C24_Witness ==
  /\ Len(g_rets) = 3
  /\ g_rets[1] = Raising("ValueError")
  /\ g_rets[2] = Returning(1)
  /\ g_rets[3] = Returning(1)
  /\ environ.RECRUITEE_API_TOKEN = ""
  /\ client_made = <<[api_token |-> "a", company_id |-> "b"]>>

====
